---------------------------- MODULE Spec2Model ----------------------------
(***************************************************************************)
(* Model of the Age Transition Intelligence dashboard (src/app.py).        *)
(*                                                                         *)
(* The dashboard is a Streamlit script: the two tables are loaded once,    *)
(* and every widget interaction re-runs the whole script, which derives    *)
(* the filtered view, the header metrics, the top-N tables, the yearly     *)
(* growth, the demand forecast and the scenario projection again.          *)
(*                                                                         *)
(* Numbers.  pandas/numpy compute in IEEE doubles.  A double is modelled   *)
(* as an exact rational n/d * 10^e (in a unique normal form) or one of     *)
(* the three IEEE specials, written with d = 0:  1/0 = +inf, -1/0 = -inf,  *)
(* 0/0 = NaN.  Rounding is not modelled; division by zero, which numpy     *)
(* scalars answer with inf or NaN (a RuntimeWarning, no exception), is.    *)
(***************************************************************************)
EXTENDS Integers, Sequences, FiniteSets, TLC

-----------------------------------------------------------------------------
(* IEEE doubles as exact rationals with specials *)

Abs(x) == IF x < 0 THEN -x ELSE x

Sign(x) == IF x > 0 THEN 1 ELSE IF x < 0 THEN -1 ELSE 0

RECURSIVE Gcd(_, _)
Gcd(a, b) == IF b = 0 THEN a ELSE Gcd(b, a % b)

RECURSIVE Pow10(_)
Pow10(k) == IF k = 0 THEN 1 ELSE 10 * Pow10(k - 1)

\* factors 2 and 5 of the denominator move into the decimal exponent
RECURSIVE ClearDen(_, _, _)
ClearDen(n, d, e) ==
    IF d % 2 = 0 THEN ClearDen(n * 5, d \div 2, e - 1)
    ELSE IF d % 5 = 0 THEN ClearDen(n * 2, d \div 5, e - 1)
    ELSE [n |-> n, d |-> d, e |-> e]

\* factors 10 of the numerator move into the decimal exponent
RECURSIVE ClearNum(_, _, _)
ClearNum(n, d, e) ==
    IF n % 10 = 0 THEN ClearNum(n \div 10, d, e + 1)
    ELSE [n |-> n, d |-> d, e |-> e]

\* the double n/d * 10^e in normal form (d = 0: a special)
Norm(n, d, e) ==
    IF d = 0 THEN [n |-> Sign(n), d |-> 0, e |-> 0]
    ELSE IF n = 0 THEN [n |-> 0, d |-> 1, e |-> 0]
    ELSE LET s == Sign(d)
             g == Gcd(Abs(n), Abs(d))
             c == ClearDen((s * n) \div g, Abs(d) \div g, e)
         IN  ClearNum(c.n, c.d, c.e)

F(n) == Norm(n, 1, 0)
Inf == [n |-> 1, d |-> 0, e |-> 0]
NegInf == [n |-> -1, d |-> 0, e |-> 0]
NaN == [n |-> 0, d |-> 0, e |-> 0]

IsNaN(x) == x.d = 0 /\ x.n = 0
IsInf(x) == x.d = 0 /\ x.n # 0
IsFinite(x) == x.d # 0

FNeg(x) == [n |-> -x.n, d |-> x.d, e |-> x.e]

FMul(a, b) ==
    IF IsNaN(a) \/ IsNaN(b) THEN NaN
    ELSE IF IsInf(a) \/ IsInf(b)
         THEN Norm(Sign(a.n) * Sign(b.n), 0, 0)
         ELSE Norm(a.n * b.n, a.d * b.d, a.e + b.e)

\* numpy's true division of scalars: x/0 is +-inf, 0/0 is NaN, no exception
FDiv(a, b) ==
    IF IsNaN(a) \/ IsNaN(b) THEN NaN
    ELSE IF IsInf(a)
         THEN (IF IsInf(b) THEN NaN
               ELSE Norm(Sign(a.n) * (IF b.n < 0 THEN -1 ELSE 1), 0, 0))
    ELSE IF IsInf(b) THEN F(0)
    ELSE IF b.n = 0 THEN Norm(Sign(a.n), 0, 0)
    ELSE Norm(a.n * b.d, a.d * b.n, a.e - b.e)

FAdd(a, b) ==
    IF IsNaN(a) \/ IsNaN(b) THEN NaN
    ELSE IF IsInf(a)
         THEN (IF IsInf(b) /\ a.n # b.n THEN NaN ELSE a)
    ELSE IF IsInf(b) THEN b
    ELSE LET m == IF a.e < b.e THEN a.e ELSE b.e
         IN  Norm(a.n * Pow10(a.e - m) * b.d + b.n * Pow10(b.e - m) * a.d,
                  a.d * b.d, m)

FSub(a, b) == FAdd(a, FNeg(b))

\* x > 0 as numpy compares it (False for NaN)
FPositive(x) == ~IsNaN(x) /\ x.n > 0

\* a <= b (False when either is NaN)
FLeq(a, b) ==
    /\ ~IsNaN(a) /\ ~IsNaN(b)
    /\ LET dif == FSub(b, a) IN ~IsNaN(dif) => dif.n >= 0


-----------------------------------------------------------------------------
(* The state of a dashboard session *)

VARIABLES
    district_profile,       \* the loaded district table (a sequence of rows)
    time_trends,            \* the loaded monthly table (a sequence of rows)
    selected_states,        \* sidebar multiselect "Select State(s)"
    ati_range,              \* sidebar slider "ATI Range": <<low, high>>
    show_anomalies,         \* sidebar checkbox "Show Only Anomalies"
    growth_rate,            \* scenario slider "Expected Growth Rate (%)"
    budget_allocation,      \* scenario number input, in crores
    target_states_scenario, \* scenario multiselect of target states
    target_age_group,       \* scenario radio button
    sort_ties               \* how this build's unstable sort leaves equal keys

(* Nothing else outlives a run: every interaction re-runs the script from  *)
(* the top, and what the page shows (filtered_data, the header metrics,    *)
(* ...) is computed afresh from the tables and the widget values.  Those   *)
(* results are the state functions of the section "One run of the script". *)

inputs == <<district_profile, time_trends>>

widgets == <<selected_states, ati_range, show_anomalies, growth_rate,
             budget_allocation, target_states_scenario, target_age_group>>

vars == <<inputs, widgets, sort_ties>>

-----------------------------------------------------------------------------
(* Helpers on sequences of rows *)

Min(a, b) == IF a < b THEN a ELSE b

RECURSIVE SumCol(_, _)
SumCol(rows, col) ==
    IF rows = <<>> THEN 0 ELSE rows[1][col] + SumCol(Tail(rows), col)

ColSet(rows, col) == {rows[i][col] : i \in DOMAIN rows}

SetMin(S) == CHOOSE x \in S : \A y \in S : x <= y
SetMax(S) == CHOOSE x \in S : \A y \in S : x >= y

CountIf(rows, Test(_)) == Len(SelectSeq(rows, Test))

-----------------------------------------------------------------------------
(* Sidebar filter: filtered_data *)

AllStatesLabel == "All States"

\* the options of the state multiselect
all_states == {AllStatesLabel} \cup ColSet(district_profile, "state")

\* an upper end that leaves the end value out
AtiUpperExclusive(ati, hi) == ati < hi

\* the avg_ATI comparison at the upper end of the slider range
AtiUpperOk(ati, hi) == ati <= hi

Filter(records, states, range, anomaliesOnly) ==
    LET byState == IF AllStatesLabel \notin states
                   THEN SelectSeq(records, LAMBDA r : r.state \in states)
                   ELSE records
        byAti == SelectSeq(byState,
                     LAMBDA r : r.avg_ATI >= range[1] /\ AtiUpperOk(r.avg_ATI, range[2]))
    IN  IF anomaliesOnly
        THEN SelectSeq(byAti, LAMBDA r : r.anomaly_flag = -1)
        ELSE byAti

-----------------------------------------------------------------------------
(* Header metrics *)

\* the division of two Python integers
DivRaisesOnZero(num, den) == den = 0

\* whether the division anomaly_count / len(filtered_data) raises: the
\* numerator is a numpy integer, so a zero divisor gives NaN, not an exception
DivRaises(num, den) == FALSE

HeaderMetrics(fd, dp) ==
    LET cnt == CountIf(fd, LAMBDA r : r.anomaly_flag = -1)
        mean == FDiv(F(SumCol(fd, "avg_ATI")), F(Len(fd)))
        national == FDiv(F(SumCol(dp, "avg_ATI")), F(Len(dp)))
    IN  [total_5_17 |-> SumCol(fd, "total_5_17"),
         total_17_plus |-> SumCol(fd, "total_17_plus"),
         avg_ati |-> mean,
         vs_national |-> FMul(FSub(FDiv(mean, national), F(1)), F(100)),
         anomaly_count |-> cnt,
         anomaly_pct |-> FMul(FDiv(F(cnt), F(Len(fd))), F(100)),
         error |-> IF DivRaises(cnt, Len(fd)) THEN "ZeroDivisionError" ELSE "none"]

-----------------------------------------------------------------------------
(* Top-N tables: DataFrame.nlargest(n, key), keep = 'first' *)

TopDistrictsN == 15
TopDemoN == 10

\* the row put in front of the rows with its key
RECURSIVE InsertBeforeEqual(_, _, _)
InsertBeforeEqual(sorted, r, key) ==
    IF sorted = <<>> THEN <<r>>
    ELSE IF sorted[1][key] > r[key]
         THEN <<sorted[1]>> \o InsertBeforeEqual(Tail(sorted), r, key)
         ELSE <<r>> \o sorted

\* where a row goes into a descending run: after every row whose key is
\* not smaller, so that equal keys stay in input order
RECURSIVE InsertDesc(_, _, _)
InsertDesc(sorted, r, key) ==
    IF sorted = <<>> THEN <<r>>
    ELSE IF sorted[1][key] >= r[key]
         THEN <<sorted[1]>> \o InsertDesc(Tail(sorted), r, key)
         ELSE <<r>> \o sorted

\* a stable descending sort (mergesort on the negated keys)
RECURSIVE SortDesc(_, _)
SortDesc(rows, key) ==
    IF rows = <<>> THEN <<>>
    ELSE InsertDesc(SortDesc(SubSeq(rows, 1, Len(rows) - 1), key),
                    rows[Len(rows)], key)

Reverse(rows) == [i \in DOMAIN rows |-> rows[Len(rows) + 1 - i]]

TieOrders == {"kept", "reversed"}

\* sort_values(ascending=False) with the default kind, quicksort, which is
\* not stable: rows come out in descending key order, and rows of equal key
\* in an order the build decides (here: input order, or its reverse)
SortValuesDesc(rows, key, ties) ==
    IF ties = "kept" THEN SortDesc(rows, key)
    ELSE SortDesc(Reverse(rows), key)

\* nlargest takes the whole frame through sort_values when n >= len (its
\* "slow method"), and otherwise selects the n largest with a stable sort
NLargest(rows, n, key, ties) ==
    IF n >= Len(rows) THEN SubSeq(SortValuesDesc(rows, key, ties), 1, Min(n, Len(rows)))
    ELSE SubSeq(SortDesc(rows, key), 1, n)

-----------------------------------------------------------------------------
(* Anomaly pie chart: value_counts() of anomaly_flag with two fixed names *)

\* value_counts: one entry per flag value present, larger count first (an
\* unstable sort_values again: equal counts come out in either order)
ValueCounts(fd, ties) ==
    LET nA == CountIf(fd, LAMBDA r : r.anomaly_flag = -1)
        nN == CountIf(fd, LAMBDA r : r.anomaly_flag # -1)
        first == IF fd = <<>> THEN 0 ELSE fd[1].anomaly_flag
        a == <<[flag |-> -1, count |-> nA]>>
        n == <<[flag |-> 1, count |-> nN]>>
    IN  IF nA = 0 /\ nN = 0 THEN <<>>
        ELSE IF nA = 0 THEN n
        ELSE IF nN = 0 THEN a
        ELSE IF nN > nA \/ (nN = nA /\ ((first # -1) <=> (ties = "kept"))) THEN n \o a
        ELSE a \o n

PieNames == <<"Normal", "Anomaly">>

\* plotly express refuses columns of different lengths with a ValueError
AnomalyPie(fd, ties) ==
    LET vc == ValueCounts(fd, ties)
    IN  [values |-> [i \in DOMAIN vc |-> vc[i].count],
         flags |-> [i \in DOMAIN vc |-> vc[i].flag],
         names |-> PieNames,
         error |-> IF Len(vc) # Len(PieNames) THEN "ValueError" ELSE "none"]


-----------------------------------------------------------------------------
(* Year-over-year growth: groupby('year').sum(), then pct_change() * 100 *)

\* groupby: one pass over the rows, accumulating per-year sums
RECURSIVE GroupSums(_, _)
GroupSums(rows, acc) ==
    IF rows = <<>> THEN acc
    ELSE LET r == rows[1]
             old == IF r.year \in DOMAIN acc THEN acc[r.year]
                    ELSE [total_5_17 |-> 0, total_17_plus |-> 0]
             new == [total_5_17 |-> old.total_5_17 + r.total_5_17,
                     total_17_plus |-> old.total_17_plus + r.total_17_plus]
         IN  GroupSums(Tail(rows),
                       [y \in DOMAIN acc \cup {r.year} |->
                           IF y = r.year THEN new ELSE acc[y]])

\* the group keys in ascending order (groupby sorts its keys)
RECURSIVE SortedKeys(_)
SortedKeys(S) ==
    IF S = {} THEN <<>>
    ELSE LET m == SetMin(S) IN <<m>> \o SortedKeys(S \ {m})

\* the change taken against the current element
PctChangeOfCurrent(prev, curr) == FSub(F(1), FDiv(F(prev), F(curr)))

\* pandas pct_change of one element against the one before it
PctChange(prev, curr) == FSub(FDiv(F(curr), F(prev)), F(1))

YearlyGrowth(tt) ==
    LET sums == GroupSums(tt, <<>>)
        years == SortedKeys(DOMAIN sums)
        Growth(i, col) ==
            IF i = 1 THEN NaN
            ELSE FMul(PctChange(sums[years[i - 1]][col], sums[years[i]][col]),
                      F(100))
    IN  [i \in DOMAIN years |->
            [year |-> years[i],
             total_5_17 |-> sums[years[i]].total_5_17,
             total_17_plus |-> sums[years[i]].total_17_plus,
             growth_5_17 |-> Growth(i, "total_5_17"),
             growth_17_plus |-> Growth(i, "total_17_plus")]]

-----------------------------------------------------------------------------
(* Demand forecast *)

(* A forecast value is a real c * b^x + k with b^x possibly irrational; it *)
(* is kept in that form.  A value with b = 1 and x = 0 is the double c.    *)

Plain(c) == [c |-> c, b |-> F(1), x |-> F(0), k |-> F(0)]

IsPlain(r) == r.b = F(1) /\ r.x = F(0)

\* numpy's float ** y for a fractional y > 0
RootOf(r, y) ==
    IF IsNaN(r) THEN Plain(NaN)
    ELSE IF IsInf(r) THEN Plain(Inf)
    ELSE IF r.n < 0 THEN Plain(NaN)
    ELSE IF r.n = 0 THEN Plain(F(0))
    ELSE IF r = F(1) THEN Plain(F(1))
    ELSE [c |-> F(1), b |-> r, x |-> y, k |-> F(0)]

RPlus(r, f) ==
    IF IsPlain(r) THEN Plain(FAdd(r.c, f))
    ELSE [r EXCEPT !.k = FAdd(r.k, f)]

RECURSIVE FPowInt(_, _)
FPowInt(f, i) == IF i = 0 THEN F(1) ELSE FMul(f, FPowInt(f, i - 1))

\* r ** i for an integer i >= 1
RPowInt(r, i) ==
    CASE IsPlain(r) -> Plain(FPowInt(r.c, i))
      [] ~IsPlain(r) /\ r.k = F(0) ->
             [c |-> FPowInt(r.c, i), b |-> r.b, x |-> FMul(r.x, F(i)), k |-> F(0)]

\* f * r
RTimes(f, r) ==
    CASE IsPlain(r) -> Plain(FMul(f, r.c))
      [] ~IsPlain(r) /\ r.k = F(0) ->
             IF IsFinite(f) /\ f.n # 0
             THEN [r EXCEPT !.c = FMul(f, r.c)]
             ELSE Plain(FMul(f, F(1)))

WindowMonths == 12
RootDegree == 12
future_months == 6

Tail12(tt) ==
    IF Len(tt) <= WindowMonths THEN tt
    ELSE SubSeq(tt, Len(tt) - WindowMonths + 1, Len(tt))

\* an empty table makes .iloc[-1] raise IndexError
ForecastError(tt) == IF tt = <<>> THEN "IndexError" ELSE "none"

Forecast(tt) ==
    IF ForecastError(tt) # "none"
    THEN [ran |-> TRUE, error |-> ForecastError(tt), avg_growth |-> Plain(NaN),
          values |-> <<>>]
    ELSE LET last_12_months == Tail12(tt)
             ratio == FDiv(F(last_12_months[Len(last_12_months)].total_17_plus),
                           F(last_12_months[1].total_17_plus))
             avg_growth == RPlus(RootOf(ratio, FDiv(F(1), F(RootDegree))), F(-1))
             last_value == tt[Len(tt)].total_17_plus
         IN  [ran |-> TRUE,
              error |-> "none",
              avg_growth |-> avg_growth,
              values |-> [i \in 1..future_months |->
                            RTimes(F(last_value),
                                   RPowInt(RPlus(avg_growth, F(1)), i))]]

-----------------------------------------------------------------------------
(* Scenario planner *)

avg_value_per_update == 500
Crore == 10000000

AgeGroups == {"5-17 (Education)", "17+ (Workforce)", "Both"}

Baseline(target_data, group) ==
    IF group = "5-17 (Education)" THEN SumCol(target_data, "total_5_17")
    ELSE IF group = "17+ (Workforce)" THEN SumCol(target_data, "total_17_plus")
    ELSE SumCol(target_data, "total_5_17") + SumCol(target_data, "total_17_plus")

\* the division left unguarded
CostPerUpdateUnguarded(budget, impact) ==
    FDiv(FMul(F(budget), F(Crore)), impact)

CostPerUpdate(budget, impact) ==
    IF FPositive(impact) THEN FDiv(FMul(F(budget), F(Crore)), impact) ELSE F(0)

Roi(budget, impact) ==
    FMul(FDiv(FMul(impact, F(avg_value_per_update)), FMul(F(budget), F(Crore))),
         F(100))

NoScenario(reached) ==
    [ran |-> reached, shown |-> FALSE, baseline |-> 0, projected |-> F(0),
     impact |-> F(0), cost_per_update |-> F(0), districts |-> 0,
     roi |-> F(0), error |-> "none"]

Scenario(dp, targets, group, rate, budget) ==
    IF targets = {} THEN NoScenario(TRUE)
    ELSE LET target_data == SelectSeq(dp, LAMBDA r : r.state \in targets)
             baseline == Baseline(target_data, group)
             projected == FMul(F(baseline), FAdd(F(1), FDiv(F(rate), F(100))))
             impact == FSub(projected, F(baseline))
         IN  [ran |-> TRUE, shown |-> TRUE,
              baseline |-> baseline,
              projected |-> projected,
              impact |-> impact,
              cost_per_update |-> CostPerUpdate(budget, impact),
              districts |-> Len(target_data),
              roi |-> Roi(budget, impact),
              error |-> "none"]


-----------------------------------------------------------------------------
(* One run of the script, top to bottom, in the current state.  An         *)
(* uncaught exception ends the run: the sections after it are not computed *)
(* and show nothing (ran = FALSE).                                         *)

NotRunRows == [ran |-> FALSE, rows |-> <<>>]

filtered_data ==
    Filter(district_profile, selected_states, ati_range, show_anomalies)

header == HeaderMetrics(filtered_data, district_profile)

header_ok == header.error = "none"

top_districts ==
    IF header_ok
    THEN [ran |-> TRUE, rows |-> NLargest(filtered_data, TopDistrictsN, "avg_ATI", sort_ties)]
    ELSE NotRunRows

anomaly_dist ==
    IF header_ok THEN [ran |-> TRUE] @@ AnomalyPie(filtered_data, sort_ties)
    ELSE [ran |-> FALSE, values |-> <<>>, flags |-> <<>>, names |-> PieNames,
          error |-> "none"]

pie_ok == header_ok /\ anomaly_dist.error = "none"

top_demo ==
    IF pie_ok
    THEN [ran |-> TRUE, rows |-> NLargest(filtered_data, TopDemoN, "total_17_plus", sort_ties)]
    ELSE NotRunRows

yearly_growth ==
    IF pie_ok THEN [ran |-> TRUE, rows |-> YearlyGrowth(time_trends)]
    ELSE NotRunRows

forecast ==
    IF pie_ok THEN Forecast(time_trends)
    ELSE [ran |-> FALSE, error |-> "none", avg_growth |-> Plain(NaN),
          values |-> <<>>]

forecast_ok == pie_ok /\ ForecastError(time_trends) = "none"

scenario ==
    IF forecast_ok
    THEN Scenario(district_profile, target_states_scenario, target_age_group,
                  growth_rate, budget_allocation)
    ELSE NoScenario(FALSE)

-----------------------------------------------------------------------------
(* Widget ranges and defaults *)

GrowthMin == -20
GrowthMax == 100
GrowthDefault == 15
BudgetMax == 10000
BudgetDefault == 500

\* the slider and number-input positions explored
GrowthRates == {GrowthMin, -1, 0, 1, GrowthDefault, GrowthMax}
Budgets == {0, 100, BudgetDefault, BudgetMax}

AtiStops == {1, 2}

AtiMin(dp) == SetMin(ColSet(dp, "avg_ATI"))
AtiMax(dp) == SetMax(ColSet(dp, "avg_ATI"))

\* positions of the two slider handles
SliderRanges(dp) ==
    LET stops == {AtiMin(dp), AtiMax(dp)}
                 \cup {v \in AtiStops : AtiMin(dp) <= v /\ v <= AtiMax(dp)}
    IN  {<<lo, hi>> \in stops \X stops : lo <= hi}

-----------------------------------------------------------------------------
(* The tables a session may load *)

MaxDistricts == 2
MaxScenarioRows == 2
MaxTrendRows == 3
MaxHistory == 13

States == {"S1", "S2"}

DistrictRow(i, s, ati, flag, t5, t17) ==
    [state |-> s, district |-> i, total_5_17 |-> t5, total_17_plus |-> t17,
     avg_ATI |-> ati, anomaly_flag |-> flag]

\* every table of 1..maxLen rows over the given column values
DistrictTables(maxLen, atis, flags, t5s, t17s) ==
    LET Kind == [s : States, a : atis, f : flags, t5 : t5s, t17 : t17s]
    IN  UNION {{[i \in 1..L |-> DistrictRow(i, k[i].s, k[i].a, k[i].f, k[i].t5, k[i].t17)]
                  : k \in [1..L -> Kind]} : L \in 1..maxLen}

Patterns == {"const", "asc", "desc", "alt"}

Pat(p, i, L) ==
    IF p = "const" THEN 2
    ELSE IF p = "asc" THEN i
    ELSE IF p = "desc" THEN L + 1 - i
    ELSE 1 + (i % 2)

\* tables longer than the top-N sizes, their key columns following a pattern
LongDistrictTables ==
    {[i \in 1..L |-> DistrictRow(i, IF i % 2 = 0 THEN "S1" ELSE "S2", Pat(p, i, L),
                                 IF i % 3 = 0 THEN -1 ELSE 1, 3, Pat(q, i, L))]
        : <<L, p, q>> \in {TopDemoN + 1, TopDistrictsN + 1} \X Patterns \X Patterns}

\* short tables over two states, two ATI values and both flags (adult updates
\* are 0 in the flagged districts and 2 in the others), and the long tables
FilterTables ==
    {t \in DistrictTables(MaxDistricts, {1, 2}, {-1, 1}, {3}, {0, 2}) :
        \A i \in DOMAIN t : (t[i].total_17_plus = 0) <=> (t[i].anomaly_flag = -1)}
    \cup LongDistrictTables

\* tables with both flag values present: the first row is the anomaly
ScenarioTables ==
    {t \in DistrictTables(MaxScenarioRows, {1}, {-1, 1}, {0, 2}, {1}) :
        /\ Len(t) >= 2
        /\ \A i \in DOMAIN t : (t[i].anomaly_flag = -1) <=> (i = 1)}

SampleDistricts ==
    <<DistrictRow(1, "S1", 1, -1, 3, 2), DistrictRow(2, "S2", 2, 1, 1, 4),
      DistrictRow(3, "S1", 2, 1, 0, 1)>>

TrendRow(y, m, t5, t17) ==
    [year |-> y, month |-> m, total_5_17 |-> t5, total_17_plus |-> t17]

Years == {2023, 2024, 2025}

\* short monthly tables with any year on any row (the two age-group columns
\* of a row add up to 3)
GrowthTables ==
    LET Kind == [y : Years, t5 : {0, 2, 3}]
    IN  UNION {{[i \in 1..L |-> TrendRow(k[i].y, i, k[i].t5, 3 - k[i].t5)]
                  : k \in [1..L -> Kind]} : L \in 0..MaxTrendRows}

HistoryValues == {-1, 0, 1, 2}

\* consecutive months from January 2023 whose 17+ series has up to three
\* levels: a before row p, b from row p on, c on the last row
StepHistories ==
    {<<>>} \cup
    {[i \in 1..L |-> TrendRow(2023 + ((i - 1) \div 12), ((i - 1) % 12) + 1, 1,
                              IF i = L THEN v[3] ELSE IF i < p THEN v[1] ELSE v[2])]
        : <<L, p, v>> \in {<<l, q, w>> \in (1..MaxHistory) \X (1..MaxHistory)
                               \X (HistoryValues \X HistoryValues \X HistoryValues)
                               : q <= l}}

SampleTrends ==
    <<TrendRow(2023, 11, 2, 1), TrendRow(2023, 12, 2, 2), TrendRow(2024, 1, 3, 4)>>

-----------------------------------------------------------------------------
(* Initial state: the tables are loaded and every widget is at its default *)

FirstRun(dp, tt) ==
    /\ district_profile = dp
    /\ time_trends = tt
    /\ selected_states = {AllStatesLabel}
    /\ ati_range = <<AtiMin(dp), AtiMax(dp)>>
    /\ show_anomalies = FALSE
    /\ growth_rate = GrowthDefault
    /\ budget_allocation = BudgetDefault
    /\ target_states_scenario = {}
    /\ target_age_group = "5-17 (Education)"
    /\ sort_ties \in TieOrders

Init == FirstRun(SampleDistricts, SampleTrends)

InitFilter == \E dp \in FilterTables : FirstRun(dp, SampleTrends)

InitGrowth == \E tt \in GrowthTables : FirstRun(SampleDistricts, tt)

InitForecast == \E tt \in StepHistories : FirstRun(SampleDistricts, tt)

InitScenario == \E dp \in ScenarioTables : FirstRun(dp, SampleTrends)

-----------------------------------------------------------------------------
(* Widget interactions: each changes one widget; the script then re-runs   *)
(* on the new state.                                                       *)

SelectStates ==
    \E S \in SUBSET all_states :
        /\ S # selected_states
        /\ selected_states' = S
        /\ UNCHANGED <<inputs, sort_ties, ati_range, show_anomalies, growth_rate,
                       budget_allocation, target_states_scenario, target_age_group>>

SlideAtiRange ==
    \E r \in SliderRanges(district_profile) :
        /\ r # ati_range
        /\ ati_range' = r
        /\ UNCHANGED <<inputs, sort_ties, selected_states, show_anomalies, growth_rate,
                       budget_allocation, target_states_scenario, target_age_group>>

\* the checkbox on a page that filters the loaded table itself, not a copy
CheckShowAnomaliesInPlace ==
    /\ show_anomalies' = ~show_anomalies
    /\ district_profile'
          = Filter(district_profile, selected_states, ati_range, show_anomalies')
    /\ UNCHANGED <<time_trends, sort_ties, selected_states, ati_range, growth_rate,
                   budget_allocation, target_states_scenario, target_age_group>>

CheckShowAnomalies ==
    /\ show_anomalies' = ~show_anomalies
    /\ UNCHANGED <<inputs, sort_ties, selected_states, ati_range, growth_rate,
                   budget_allocation, target_states_scenario, target_age_group>>

\* the scenario widgets exist only on a page whose run reached the planner
SlideGrowthRate ==
    /\ forecast_ok
    /\ \E g \in GrowthRates :
            /\ g # growth_rate
            /\ growth_rate' = g
            /\ UNCHANGED <<inputs, sort_ties, selected_states, ati_range, show_anomalies,
                           budget_allocation, target_states_scenario, target_age_group>>

InputBudget ==
    /\ forecast_ok
    /\ \E b \in Budgets :
            /\ b # budget_allocation
            /\ budget_allocation' = b
            /\ UNCHANGED <<inputs, sort_ties, selected_states, ati_range, show_anomalies,
                           growth_rate, target_states_scenario, target_age_group>>

SelectTargetStates ==
    /\ forecast_ok
    /\ \E T \in SUBSET ColSet(district_profile, "state") :
            /\ T # target_states_scenario
            /\ target_states_scenario' = T
            /\ UNCHANGED <<inputs, sort_ties, selected_states, ati_range, show_anomalies,
                           growth_rate, budget_allocation, target_age_group>>

PickAgeGroup ==
    /\ forecast_ok
    /\ \E a \in AgeGroups :
            /\ a # target_age_group
            /\ target_age_group' = a
            /\ UNCHANGED <<inputs, sort_ties, selected_states, ati_range, show_anomalies,
                           growth_rate, budget_allocation, target_states_scenario>>

NextSidebar == SelectStates \/ SlideAtiRange \/ CheckShowAnomalies

NextPlanner == SlideGrowthRate \/ InputBudget \/ SelectTargetStates \/ PickAgeGroup

Next == NextSidebar \/ NextPlanner

Spec == Init /\ [][Next]_vars

\* the sidebar filter over every district table
SpecFilter == InitFilter /\ [][NextSidebar]_vars

\* the time-series tab over monthly tables with free years
SpecGrowth == InitGrowth /\ [][CheckShowAnomalies]_vars

\* the time-series tab over monthly histories of up to MaxHistory months
SpecForecast == InitForecast /\ [][CheckShowAnomalies]_vars

\* the scenario planner
SpecScenario == InitScenario /\ [][NextPlanner]_vars

-----------------------------------------------------------------------------
(* Scenario planner properties (SpecScenario) *)

BudgetCurrency == FMul(F(budget_allocation), F(10000000))

\* C1: whenever the budget is zero the scenario projection ends in an
\* InvalidScenarioInput error and yields no roiPct value (neither zero,
\* infinity nor NaN).
C1_ZeroBudgetIsAnError ==
    (scenario.shown /\ budget_allocation = 0)
        => (scenario.error = "InvalidScenarioInput" /\ IsFinite(scenario.roi))

\* C6: for a baseline >= 0, a growth rate in -20..100 and a budget > 0:
\* projected = baseline * (1 + rate/100); impact = projected - baseline;
\* costPerUpdate = budgetCurrency / impact when impact > 0 and exactly 0 when
\* impact <= 0 (zero or negative growth, or zero baseline); roiPct =
\* impact * 500 / budgetCurrency * 100, budgetCurrency being the budget in
\* crores times 10,000,000.
C6_ScenarioFormulas ==
    (scenario.shown /\ budget_allocation > 0) =>
        /\ scenario.baseline >= 0
        /\ growth_rate \in -20..100
        /\ FMul(scenario.projected, F(100)) = F(scenario.baseline * (100 + growth_rate))
        /\ FAdd(scenario.impact, F(scenario.baseline)) = scenario.projected
        /\ FPositive(scenario.impact) <=> (scenario.baseline > 0 /\ growth_rate > 0)
        /\ FPositive(scenario.impact)
              => FMul(scenario.cost_per_update, scenario.impact) = BudgetCurrency
        /\ ~FPositive(scenario.impact) => scenario.cost_per_update = F(0)
        /\ IsFinite(scenario.roi)
        /\ FMul(scenario.roi, BudgetCurrency)
              = FMul(FMul(scenario.impact, F(500)), F(100))
        /\ scenario.error = "none"

\* a projection with a positive impact and one the page shows a cost for
C6_Witness ==
    /\ scenario.shown
    /\ budget_allocation = BudgetMax
    /\ growth_rate = GrowthMax
    /\ target_age_group = "Both"
    /\ FPositive(scenario.impact)
    /\ scenario.cost_per_update # F(0)

-----------------------------------------------------------------------------
(* Demand forecast properties (SpecForecast) *)

\* the trailing window and its two end values
Window == Tail12(time_trends)
WindowFirst == Window[1].total_17_plus
WindowLast == Window[Len(Window)].total_17_plus

\* the history is in ascending (year, month) order
HistorySorted ==
    \A i, j \in DOMAIN time_trends :
        i < j => \/ time_trends[i].year < time_trends[j].year
                 \/ /\ time_trends[i].year = time_trends[j].year
                    /\ time_trends[i].month < time_trends[j].month

\* two forecast values are the same real number
SameReal(v, w) ==
    IF IsPlain(v) /\ IsPlain(w)
    THEN v.c = w.c
    ELSE v.c = w.c /\ v.b = w.b /\ v.x = w.x /\ v.k = w.k

\* C2: the forecast fails with an error, and produces no forecast values,
\* whenever the first value of the trailing window is zero or negative or
\* the monthly history holds fewer than 2 records.
C2_BadHistoryIsAnError ==
    (forecast.ran /\ (Len(time_trends) < 2 \/ WindowFirst <= 0))
        => (forecast.error # "none" /\ forecast.values = <<>>)

\* the k-th forecast value for a growth taken as the (|W| - 1)-th root
WindowRootForecast(k) ==
    RTimes(F(WindowLast),
           RPowInt(RootOf(FDiv(F(WindowLast), F(WindowFirst)),
                          FDiv(F(1), F(Len(Window) - 1))), k))

\* C3: for a sorted history of at least 2 records with a positive first
\* window value, W being the last min(12, length) records, the k-th forecast
\* value (k = 1..horizon) is lastValue * (1 + g)^k with
\* g = (lastValue / firstValue)^(1 / (|W| - 1)) - 1, so that projecting
\* |W| - 1 steps multiplies lastValue by exactly lastValue / firstValue.
C3_GrowthIsWindowRoot ==
    (forecast.ran /\ HistorySorted /\ Len(time_trends) >= 2
        /\ WindowFirst > 0 /\ WindowLast >= 0) =>
        /\ Len(Window) = Min(12, Len(time_trends))
        /\ Len(forecast.values) = future_months
        /\ \A k \in 1..future_months :
              SameReal(forecast.values[k], WindowRootForecast(k))
        /\ Len(Window) - 1 <= future_months =>
              SameReal(forecast.values[Len(Window) - 1],
                       Plain(FMul(F(WindowLast), FDiv(F(WindowLast), F(WindowFirst)))))

-----------------------------------------------------------------------------
(* Year-over-year growth properties (SpecGrowth) *)

AgeColumns == {"total_5_17", "total_17_plus"}

GrowthOf(row, col) ==
    IF col = "total_5_17" THEN row.growth_5_17 ELSE row.growth_17_plus

\* the sum of a column over the monthly rows of one year
YearTotal(y, col) ==
    LET idx == {i \in DOMAIN time_trends : time_trends[i].year = y}
        Part[S \in SUBSET idx] ==
            IF S = {} THEN 0
            ELSE LET i == CHOOSE j \in S : TRUE
                 IN  time_trends[i][col] + Part[S \ {i}]
    IN  Part[idx]

\* C5: a year whose immediately preceding year has a total of zero for an
\* age group gets an undefined (null) growth for it, never an infinite or
\* otherwise non-finite number.
C5_ZeroPreviousYearIsNull ==
    yearly_growth.ran =>
        \A i \in DOMAIN yearly_growth.rows : \A col \in AgeColumns :
            (i > 1 /\ yearly_growth.rows[i - 1][col] = 0)
                => IsNaN(GrowthOf(yearly_growth.rows[i], col))

\* C8: the growth table has one row per year, in ascending year order, each
\* holding the sums of the two age-group columns over that year; the first
\* year's growth is undefined (null), not zero, and every later year with a
\* non-zero preceding total has growth (curr - prev) / prev * 100 against
\* the year immediately before it in the table.
C8_YearOverYearGrowth ==
    yearly_growth.ran =>
        LET rows == yearly_growth.rows
        IN  /\ {rows[i].year : i \in DOMAIN rows} = ColSet(time_trends, "year")
            /\ \A i, j \in DOMAIN rows : i < j => rows[i].year < rows[j].year
            /\ \A i \in DOMAIN rows : \A col \in AgeColumns :
                  /\ rows[i][col] = YearTotal(rows[i].year, col)
                  /\ i = 1 => IsNaN(GrowthOf(rows[i], col))
                  /\ (i > 1 /\ rows[i - 1][col] # 0) =>
                        /\ IsFinite(GrowthOf(rows[i], col))
                        /\ FMul(GrowthOf(rows[i], col), F(rows[i - 1][col]))
                              = F((rows[i][col] - rows[i - 1][col]) * 100)

\* three years out of calendar order in the table, totals 2, 3, 2:
\* growth null, +50 and -33.3
C8_Witness ==
    /\ yearly_growth.ran
    /\ Len(time_trends) = 3
    /\ time_trends[1].year > time_trends[2].year
    /\ Len(yearly_growth.rows) = 3
    /\ IsNaN(yearly_growth.rows[1].growth_5_17)
    /\ yearly_growth.rows[2].growth_5_17 = F(50)
    /\ FMul(yearly_growth.rows[3].growth_5_17, F(3)) = F(-100)

-----------------------------------------------------------------------------
(* Sidebar filter properties (SpecFilter) *)

RowSet(rows) == {rows[i] : i \in DOMAIN rows}

\* rows is a subsequence of the district table: rows of the table, each at
\* most once, in table order (a row's district is its place in the table)
IsSubsequence(rows) ==
    /\ RowSet(rows) \subseteq RowSet(district_profile)
    /\ \A i, j \in DOMAIN rows : i < j => rows[i].district < rows[j].district

FullAtiRange == <<AtiMin(district_profile), AtiMax(district_profile)>>

\* C4: an empty set of selected states applies no state restriction: the
\* result equals the one with the 'All States' sentinel selected (and is
\* not the empty table when rows satisfy the other predicates).
C4_EmptySelectionIsUnrestricted ==
    selected_states = {} =>
        filtered_data = Filter(district_profile, {AllStatesLabel}, ati_range,
                               show_anomalies)

\* a row passes every active predicate of the sidebar
Passes(r) ==
    /\ AllStatesLabel \in selected_states \/ r.state \in selected_states
    /\ ati_range[1] <= r.avg_ATI /\ r.avg_ATI <= ati_range[2]
    /\ show_anomalies => r.anomaly_flag = -1

-----------------------------------------------------------------------------
(* Header metric properties (SpecFilter) *)

\* the sum of a column over the filtered rows, taken by row index
FilteredTotal(col) ==
    LET Upto[n \in 0..Len(filtered_data)] ==
            IF n = 0 THEN 0 ELSE Upto[n - 1] + filtered_data[n][col]
    IN  Upto[Len(filtered_data)]

\* C10: the header metrics over any filtered set, the empty one included,
\* are the arithmetic sums of total_5_17 and total_17_plus and the number
\* of rows flagged as anomalies; on the empty set both sums and the count
\* are 0, the mean ATI (and the anomaly percentage) is undefined, and
\* computing the header does not end in an error.
C10_HeaderTotals ==
    /\ header.total_5_17 = FilteredTotal("total_5_17")
    /\ header.total_17_plus = FilteredTotal("total_17_plus")
    /\ header.anomaly_count
          = Cardinality({i \in DOMAIN filtered_data : filtered_data[i].anomaly_flag = -1})
    /\ header.error = "none"
    /\ filtered_data = <<>> =>
          /\ header.total_5_17 = 0 /\ header.total_17_plus = 0
          /\ header.anomaly_count = 0
          /\ IsNaN(header.avg_ati)
          /\ IsNaN(header.anomaly_pct)
    /\ filtered_data # <<>> =>
          /\ FMul(header.avg_ati, F(Len(filtered_data))) = F(FilteredTotal("avg_ATI"))
          /\ FMul(header.anomaly_pct, F(Len(filtered_data)))
                = F(header.anomaly_count * 100)

\* no state selected: nothing passes the filter and the header is computed
C10_Witness ==
    /\ selected_states = {}
    /\ filtered_data = <<>>
    /\ Len(district_profile) >= 2
    /\ header.error = "none"

-----------------------------------------------------------------------------
(* Top-N properties (SpecFilter) *)

Descending(rows, key) ==
    \A i, j \in DOMAIN rows : i < j => rows[i][key] >= rows[j][key]

TiesInInputOrder(rows, key) ==
    \A i, j \in DOMAIN rows :
        (i < j /\ rows[i][key] = rows[j][key]) => rows[i].district < rows[j].district

\* rows holds Min(n, |filtered_data|) different rows of filtered_data, none
\* of them smaller in key than a row left out
HoldsLargest(rows, n, key) ==
    /\ Len(rows) = Min(n, Len(filtered_data))
    /\ RowSet(rows) \subseteq RowSet(filtered_data)
    /\ Cardinality(RowSet(rows)) = Len(rows)
    /\ \A o \in RowSet(rows) : \A r \in RowSet(filtered_data) \ RowSet(rows) :
          o[key] >= r[key]

\* of rows with equal keys at the cut, the earlier ones are kept
CutKeepsFirst(rows, key) ==
    \A o \in RowSet(rows) : \A r \in RowSet(filtered_data) \ RowSet(rows) :
        o[key] = r[key] => o.district < r.district

TopNOnSelection(rows, n, key) ==
    /\ HoldsLargest(rows, n, key)
    /\ Descending(rows, key)
    /\ n < Len(filtered_data) =>
          /\ TiesInInputOrder(rows, key)
          /\ CutKeepsFirst(rows, key)
    /\ n >= Len(filtered_data) => RowSet(rows) = RowSet(filtered_data)

-----------------------------------------------------------------------------
(* Source table properties (Spec) *)

\* C11: after load, no operation of a dashboard run, under any sequence of
\* widget settings, changes the loaded district table or the monthly-trend
\* table: every step leaves both source tables as they were.
C11_SourceTablesUnchanged ==
    [][district_profile' = district_profile /\ time_trends' = time_trends]_vars

\* a run that filtered the district table down to some of its rows and
\* projected a scenario from it, the tables being the loaded ones
C11_Witness ==
    /\ district_profile = SampleDistricts
    /\ time_trends = SampleTrends
    /\ filtered_data # <<>>
    /\ Len(filtered_data) < Len(district_profile)
    /\ forecast.ran
    /\ scenario.shown

-----------------------------------------------------------------------------
(* Anomaly pie chart properties (SpecFilter) *)

\* the value of the slice carrying a label (none when the label has no slice)
SliceValues(label) ==
    {anomaly_dist.values[i] : i \in {j \in DOMAIN anomaly_dist.values \cap DOMAIN anomaly_dist.names :
                                        anomaly_dist.names[j] = label}}

\* C12: in the anomaly pie chart, for every filtered record set, the slice
\* labelled 'Anomaly' carries the number of filtered rows whose anomaly_flag
\* is -1, the slice labelled 'Normal' the number of the remaining rows, and
\* there are as many labels as slice values; also when anomalous rows
\* outnumber the normal ones and when only one flag value is present.
C12_PieLabelsMatchCounts ==
    anomaly_dist.ran =>
        LET nA == Cardinality({i \in DOMAIN filtered_data : filtered_data[i].anomaly_flag = -1})
        IN  /\ anomaly_dist.error = "none"
            /\ Len(anomaly_dist.names) = Len(anomaly_dist.values)
            /\ SliceValues("Anomaly") \subseteq {nA}
            /\ SliceValues("Normal") \subseteq {Len(filtered_data) - nA}

=============================================================================
